---------------------------- MODULE Spec2Model ----------------------------
(***************************************************************************)
(* A model of AIShoppingCompanion/services.py (class AIShoppingService)    *)
(* and of the chat endpoint of AIShoppingCompanion/main.py.                *)
(*                                                                         *)
(* Texts are TLA+ strings, inspected character by character with SubSeq,   *)
(* so that Python's substring tests, split, replace, strip, lower and int  *)
(* are computed and not assumed.  The character "$" stands for the rupee   *)
(* sign U+20B9 of the source.                                              *)
(***************************************************************************)
EXTENDS Integers, Sequences, FiniteSets, TLC

VARIABLES
    keys,           \* the API keys read by __init__: which ports are configured
    user_sessions,  \* self.user_sessions: session id -> session dict
    pending,        \* chat turns suspended at the HTTP call of a search
    ev,             \* what the last step did: the turn it handled and its reply
    call,           \* the arguments of the one-shot or pure call under study
    ret,            \* the value that call returned
    uuids           \* how many uuid4 values have been drawn so far

vars == <<keys, user_sessions, pending, ev, call, ret, uuids>>

---------------------------------------------------------------------------
(* Python values *)

\* Optional values are sets of at most one element: None is the empty set.
None == {}

Some(v) == {v}

The(o) == CHOOSE v \in o : TRUE

\* dict.get(key, default)
Get(d, k, default) == IF k \in DOMAIN d THEN d[k] ELSE default

\* d[key] = value
Put(d, k, v) == [x \in (DOMAIN d) \cup {k} |-> IF x = k THEN v ELSE d[x]]

EmptyDict == <<>>

---------------------------------------------------------------------------
(* Python str operations *)

INR == "$"

\* sub in s
Contains(s, sub) ==
    \E i \in 1..(Len(s) - Len(sub) + 1) : SubSeq(s, i, i + Len(sub) - 1) = sub

\* the index of the first occurrence of sub in s, 0 when there is none
Find(s, sub) ==
    IF Contains(s, sub)
    THEN CHOOSE i \in 1..(Len(s) - Len(sub) + 1) :
            /\ SubSeq(s, i, i + Len(sub) - 1) = sub
            /\ \A j \in 1..(i - 1) : SubSeq(s, j, j + Len(sub) - 1) # sub
    ELSE 0

LowerChar(c) ==
    CASE c = "A" -> "a" [] c = "B" -> "b" [] c = "C" -> "c" [] c = "D" -> "d"
      [] c = "E" -> "e" [] c = "F" -> "f" [] c = "G" -> "g" [] c = "H" -> "h"
      [] c = "I" -> "i" [] c = "J" -> "j" [] c = "K" -> "k" [] c = "L" -> "l"
      [] c = "M" -> "m" [] c = "N" -> "n" [] c = "O" -> "o" [] c = "P" -> "p"
      [] c = "Q" -> "q" [] c = "R" -> "r" [] c = "S" -> "s" [] c = "T" -> "t"
      [] c = "U" -> "u" [] c = "V" -> "v" [] c = "W" -> "w" [] c = "X" -> "x"
      [] c = "Y" -> "y" [] c = "Z" -> "z" [] OTHER -> c

\* s.lower()
RECURSIVE Lower(_)
Lower(s) ==
    IF Len(s) = 0 THEN ""
    ELSE LowerChar(SubSeq(s, 1, 1)) \o Lower(SubSeq(s, 2, Len(s)))

\* s.replace(ch, "") for a one-character ch
RECURSIVE Remove(_, _)
Remove(s, ch) ==
    IF Len(s) = 0 THEN ""
    ELSE (IF SubSeq(s, 1, 1) = ch THEN "" ELSE SubSeq(s, 1, 1))
            \o Remove(SubSeq(s, 2, Len(s)), ch)

\* s.replace(ch, by) for a one-character ch
RECURSIVE Replace(_, _, _)
Replace(s, ch, by) ==
    IF Len(s) = 0 THEN ""
    ELSE (IF SubSeq(s, 1, 1) = ch THEN by ELSE SubSeq(s, 1, 1))
            \o Replace(SubSeq(s, 2, Len(s)), ch, by)

\* s.split(sep): the sequence of the pieces between the occurrences of sep
RECURSIVE Split(_, _)
Split(s, sep) ==
    LET i == Find(s, sep)
    IN  IF i = 0 THEN <<s>>
        ELSE <<SubSeq(s, 1, i - 1)>> \o Split(SubSeq(s, i + Len(sep), Len(s)), sep)

RECURSIVE LStrip(_)
LStrip(s) ==
    IF Len(s) > 0 /\ SubSeq(s, 1, 1) = " " THEN LStrip(SubSeq(s, 2, Len(s))) ELSE s

RECURSIVE RStrip(_)
RStrip(s) ==
    IF Len(s) > 0 /\ SubSeq(s, Len(s), Len(s)) = " "
    THEN RStrip(SubSeq(s, 1, Len(s) - 1)) ELSE s

\* s.strip()
Strip(s) == RStrip(LStrip(s))

Digits == {"0", "1", "2", "3", "4", "5", "6", "7", "8", "9"}

DigitValue(c) ==
    CASE c = "0" -> 0 [] c = "1" -> 1 [] c = "2" -> 2 [] c = "3" -> 3
      [] c = "4" -> 4 [] c = "5" -> 5 [] c = "6" -> 6 [] c = "7" -> 7
      [] c = "8" -> 8 [] c = "9" -> 9

AllDigits(s) == Len(s) > 0 /\ \A i \in 1..Len(s) : SubSeq(s, i, i) \in Digits

RECURSIVE DigitsValue(_)
DigitsValue(s) ==
    IF Len(s) = 0 THEN 0
    ELSE 10 * DigitsValue(SubSeq(s, 1, Len(s) - 1)) + DigitValue(SubSeq(s, Len(s), Len(s)))

\* int(s): None when Python raises ValueError.  Surrounding blanks and one
\* sign are accepted, as Python accepts them.
ParseInt(s) ==
    LET t == Strip(s)
        signed == Len(t) > 0 /\ SubSeq(t, 1, 1) \in {"+", "-"}
        body == IF signed THEN SubSeq(t, 2, Len(t)) ELSE t
    IN  IF ~AllDigits(body) THEN None
        ELSE IF signed /\ SubSeq(t, 1, 1) = "-" THEN Some(0 - DigitsValue(body))
        ELSE Some(DigitsValue(body))

\* any(word in text for word in words)
AnyIn(words, text) == \E i \in 1..Len(words) : Contains(text, words[i])

---------------------------------------------------------------------------
(* Insertion-ordered dicts (session["current_filters"]): sequences of       *)
(* <<key, value>> pairs with pairwise distinct keys.                        *)

OKeys(d) == {d[i][1] : i \in 1..Len(d)}

OHas(d, k) == k \in OKeys(d)

OGet(d, k) == d[CHOOSE i \in 1..Len(d) : d[i][1] = k][2]

\* d[k] = v: a present key keeps its place, a new key goes last
OPut(d, k, v) ==
    IF OHas(d, k)
    THEN [i \in 1..Len(d) |-> IF d[i][1] = k THEN <<k, v>> ELSE d[i]]
    ELSE Append(d, <<k, v>>)

---------------------------------------------------------------------------
(* The static tables of the service *)

product_keywords ==
    << "smartphone", "phone", "mobile", "iphone", "android",
       "laptop", "computer", "macbook", "chromebook",
       "speakers", "speaker", "bluetooth speaker",
       "earphones", "headphones", "earbuds", "airpods",
       "tablet", "ipad",
       "watch", "smartwatch", "fitness tracker",
       "camera", "dslr", "mirrorless",
       "tv", "television", "smart tv",
       "mouse", "keyboard", "webcam",
       "charger", "power bank", "cable",
       "case", "cover", "screen protector" >>

\* _extract_product_keyword: the first vocabulary entry found in the
\* lower-cased message, None when there is none
extract_product_keyword(message) ==
    LET message_lower == Lower(message)
        hits == {i \in 1..Len(product_keywords) :
                    Contains(message_lower, product_keywords[i])}
    IN  IF hits = {} THEN None
        ELSE Some(product_keywords[CHOOSE i \in hits : \A j \in hits : i <= j])

SmartphoneFilters ==
    << [name |-> "Brand", param |-> "brand",
        options |-> <<"Samsung", "Apple", "OnePlus", "Xiaomi", "Realme",
                      "Oppo", "Vivo", "Google", "Nothing">>],
       [name |-> "Price Range", param |-> "price",
        options |-> <<"Under $10,000", "$10,000 - $20,000", "$20,000 - $40,000",
                      "$40,000 - $60,000", "Above $60,000">>],
       [name |-> "Storage", param |-> "storage",
        options |-> <<"64GB", "128GB", "256GB", "512GB", "1TB">>],
       [name |-> "RAM", param |-> "ram",
        options |-> <<"4GB", "6GB", "8GB", "12GB", "16GB">>] >>

LaptopFilters ==
    << [name |-> "Brand", param |-> "brand",
        options |-> <<"HP", "Dell", "Lenovo", "Asus", "Acer", "Apple", "MSI",
                      "Samsung">>],
       [name |-> "Price Range", param |-> "price",
        options |-> <<"Under $30,000", "$30,000 - $50,000", "$50,000 - $80,000",
                      "$80,000 - $1,20,000", "Above $1,20,000">>],
       [name |-> "Processor", param |-> "processor",
        options |-> <<"Intel Core i3", "Intel Core i5", "Intel Core i7",
                      "Intel Core i9", "AMD Ryzen 5", "AMD Ryzen 7",
                      "Apple M1/M2">>],
       [name |-> "RAM", param |-> "ram",
        options |-> <<"4GB", "8GB", "16GB", "32GB">>] >>

SpeakerFilters ==
    << [name |-> "Brand", param |-> "brand",
        options |-> <<"JBL", "Sony", "Bose", "Marshall", "Ultimate Ears",
                      "Boat", "Portronics">>],
       [name |-> "Price Range", param |-> "price",
        options |-> <<"Under $2,000", "$2,000 - $5,000", "$5,000 - $10,000",
                      "$10,000 - $20,000", "Above $20,000">>],
       [name |-> "Connectivity", param |-> "connectivity",
        options |-> <<"Bluetooth", "Wi-Fi", "Wired", "Multi-room">>] >>

EarphoneFilters ==
    << [name |-> "Brand", param |-> "brand",
        options |-> <<"Apple", "Sony", "Bose", "JBL", "Sennheiser", "Boat",
                      "OnePlus", "Samsung">>],
       [name |-> "Price Range", param |-> "price",
        options |-> <<"Under $1,500", "$1,500 - $5,000", "$5,000 - $10,000",
                      "$10,000 - $20,000", "Above $20,000">>],
       [name |-> "Type", param |-> "type",
        options |-> <<"True Wireless", "Wireless", "Wired", "Over-ear",
                      "On-ear", "In-ear">>],
       [name |-> "Features", param |-> "features",
        options |-> <<"Active Noise Cancellation", "Wireless Charging",
                      "Water Resistant", "Gaming", "Sports">>] >>

DefaultFilters ==
    << [name |-> "Price Range", param |-> "price",
        options |-> <<"Under $1,000", "$1,000 - $5,000", "$5,000 - $10,000",
                      "$10,000 - $25,000", "Above $25,000">>],
       [name |-> "Brand", param |-> "brand",
        options |-> <<"Popular Brands", "Premium Brands", "Budget Brands">>] >>

\* Only the four listed categories have filters
get_available_filters_listed_only(keyword) ==
    IF keyword \in {"smartphone", "phone", "mobile", "iphone", "android"}
    THEN SmartphoneFilters
    ELSE IF keyword \in {"laptop", "computer", "macbook", "chromebook"}
    THEN LaptopFilters
    ELSE IF keyword \in {"speakers", "speaker", "bluetooth speaker"}
    THEN SpeakerFilters
    ELSE IF keyword \in {"earphones", "headphones", "earbuds", "airpods"}
    THEN EarphoneFilters
    ELSE <<>>

\* _get_available_filters
get_available_filters(keyword) ==
    IF keyword \in {"smartphone", "phone", "mobile", "iphone", "android"}
    THEN SmartphoneFilters
    ELSE IF keyword \in {"laptop", "computer", "macbook", "chromebook"}
    THEN LaptopFilters
    ELSE IF keyword \in {"speakers", "speaker", "bluetooth speaker"}
    THEN SpeakerFilters
    ELSE IF keyword \in {"earphones", "headphones", "earbuds", "airpods"}
    THEN EarphoneFilters
    ELSE DefaultFilters

AnyBrand == {"Popular Brands", "Premium Brands", "Budget Brands"}

\* _get_fallback_products.  rating and reviews_count are optional values;
\* ratings are kept in tenths (4.3 is 43).
get_fallback_products(query) ==
    LET query_lower == Lower(query)
    IN  IF AnyIn(<<"smartphone", "phone", "mobile">>, query_lower)
        THEN << [title |-> "Samsung Galaxy A54 5G (Awesome Blue, 128GB)",
                 price |-> "$38,999",
                 description |-> "6.4-inch Super AMOLED display, 50MP triple camera, 5000mAh battery",
                 image_url |-> "https://images.samsung.com/is/image/samsung/p6pim/in/2202/gallery/in-galaxy-a54-5g-a546-sm-a546elvcins-534851043",
                 rating |-> Some(43), reviews_count |-> Some(15420),
                 source |-> "Amazon", url |-> "https://amazon.in"],
                [title |-> "Realme 11 Pro+ 5G (Oasis Green, 256GB)",
                 price |-> "$31,999",
                 description |-> "6.7-inch curved AMOLED, 200MP camera, 100W SuperVOOC charging",
                 image_url |-> "https://image01.realme.net/general/20230510/1683709141064.jpg",
                 rating |-> Some(42), reviews_count |-> Some(8934),
                 source |-> "Flipkart", url |-> "https://flipkart.com"] >>
        ELSE IF AnyIn(<<"laptop", "computer">>, query_lower)
        THEN << [title |-> "HP Pavilion 15 Intel Core i5 12th Gen Laptop",
                 price |-> "$56,999",
                 description |-> "15.6-inch FHD, 8GB RAM, 512GB SSD, Windows 11",
                 image_url |-> "https://ssl-product-images.www8-hp.com/digmedialib/prodimg/lowres/c08140467.png",
                 rating |-> Some(41), reviews_count |-> Some(2341),
                 source |-> "HP Store", url |-> "https://hp.com"] >>
        ELSE << [title |-> "Sample Product for " \o query,
                 price |-> "$15,999",
                 description |-> "High-quality product matching your search criteria",
                 image_url |-> "https://via.placeholder.com/300x200?text=Product",
                 rating |-> Some(40), reviews_count |-> Some(500),
                 source |-> "Sample Store", url |-> "#"] >>

UpperChar(c) ==
    CASE c = "b" -> "B" [] c = "p" -> "P" [] c = "s" -> "S" [] c = "r" -> "R"
      [] c = "t" -> "T" [] c = "f" -> "F" [] c = "c" -> "C" [] OTHER -> c

\* key.title() of a one-word parameter key
Title(k) ==
    IF Len(k) = 0 THEN "" ELSE UpperChar(SubSeq(k, 1, 1)) \o Lower(SubSeq(k, 2, Len(k)))

\* ", ".join(f"{key.title()}: {value}" for key, value in filters.items())
RECURSIVE filter_info(_)
filter_info(filters) ==
    IF Len(filters) = 0 THEN ""
    ELSE LET last == filters[Len(filters)]
             this == Title(last[1]) \o ": " \o last[2]
         IN  IF Len(filters) = 1 THEN this
             ELSE filter_info(SubSeq(filters, 1, Len(filters) - 1)) \o ", " \o this

\* The brand test never skips a product
BrandRejects_never(product, filters) == FALSE

\* The brand test of _get_filtered_fallback_products: the product is skipped
BrandRejects(product, filters) ==
    /\ OHas(filters, "brand")
    /\ OGet(filters, "brand") \notin AnyBrand
    /\ ~Contains(Lower(product.title), Lower(OGet(filters, "brand")))

\* The price test of _get_filtered_fallback_products: the product is skipped.
\* Any exception inside the test (int() of a text that is no number) is
\* swallowed and keeps the product.
PriceRejects(product, filters) ==
    /\ OHas(filters, "price")
    /\ LET price_filter == OGet(filters, "price")
           price_num == ParseInt(Remove(Remove(Get(product, "price", "$0"), INR), ","))
       IN  /\ price_num # None
           /\ IF Contains(price_filter, "Under $")
              THEN LET max_price == ParseInt(Remove(Split(price_filter, INR)[2], ","))
                   IN  max_price # None /\ The(price_num) >= The(max_price)
              ELSE IF Contains(price_filter, "-")
              THEN LET prices == Split(Remove(Remove(price_filter, INR), ","), " - ")
                   IN  /\ Len(prices) = 2
                       /\ ParseInt(prices[1]) # None
                       /\ ParseInt(prices[2]) # None
                       /\ ~(The(ParseInt(prices[1])) <= The(price_num)
                            /\ The(price_num) <= The(ParseInt(prices[2])))
              ELSE FALSE

\* The filtered list is returned even when it is empty
get_filtered_fallback_products_no_default(keyword, filters) ==
    LET base_products == get_fallback_products(keyword)
        kept == SelectSeq(base_products,
                    LAMBDA p : ~BrandRejects(p, filters) /\ ~PriceRejects(p, filters))
    IN  [i \in 1..Len(kept) |->
            [k \in (DOMAIN kept[i]) \cup {"explanation"} |->
                IF k = "explanation"
                THEN "Matches your filters - " \o filter_info(filters)
                ELSE kept[i][k]]]

\* _get_filtered_fallback_products
get_filtered_fallback_products(keyword, filters) ==
    LET base_products == get_fallback_products(keyword)
        kept == SelectSeq(base_products,
                    LAMBDA p : ~BrandRejects(p, filters) /\ ~PriceRejects(p, filters))
        filtered_products ==
            [i \in 1..Len(kept) |->
                [k \in (DOMAIN kept[i]) \cup {"explanation"} |->
                    IF k = "explanation"
                    THEN "Matches your filters - " \o filter_info(filters)
                    ELSE kept[i][k]]]
    IN  IF Len(filtered_products) > 0 THEN filtered_products ELSE base_products

---------------------------------------------------------------------------
(* The product-search port and the filtered search *)

\* The query text of _search_with_filters (lines 620-651).  raised: the
\* IndexError of price_filter.split(INR)[1] when the price answer holds
\* "Under" and no currency sign; it is raised before the try block.
build_search_query(keyword, filters) ==
    LET brand == IF OHas(filters, "brand") /\ OGet(filters, "brand") \notin AnyBrand
                 THEN " " \o OGet(filters, "brand") ELSE ""
        price_filter == IF OHas(filters, "price") THEN OGet(filters, "price") ELSE ""
        raised == /\ OHas(filters, "price")
                  /\ Contains(price_filter, "Under")
                  /\ Len(Split(price_filter, INR)) < 2
        price == IF ~OHas(filters, "price") \/ raised THEN ""
                 ELSE IF Contains(price_filter, "Under")
                 THEN " under " \o Remove(Split(price_filter, INR)[2], ",")
                 ELSE IF Contains(price_filter, "-")
                 THEN " " \o Replace(price_filter, INR, "Rs ")
                 ELSE ""
        plain(k, suffix) == IF OHas(filters, k) THEN " " \o OGet(filters, k) \o suffix ELSE ""
    IN  [raised |-> raised,
         query  |-> keyword \o brand \o price \o plain("storage", "")
                        \o plain("ram", " RAM") \o plain("processor", "")
                        \o plain("type", "") \o plain("features", "")
                        \o plain("connectivity", "")]

\* One raw listing of the port's "shopping_results" -> one candidate
\* (lines 269-279 and 690-700)
to_product(result) ==
    [title         |-> Get(result, "title", ""),
     price         |-> Get(result, "price", ""),
     description   |-> Get(result, "snippet", ""),
     image_url     |-> Get(result, "thumbnail", ""),
     rating        |-> Get(result, "rating", None),
     reviews_count |-> Get(result, "reviews", None),
     source        |-> Get(result, "source", ""),
     url           |-> Get(result, "link", ""),
     raw_data      |-> result]

to_products(shopping_results) ==
    [i \in 1..Len(shopping_results) |-> to_product(shopping_results[i])]

\* What _search_with_filters returns once the port has answered `outcome`
\* (lines 683-713): the listings of a 200 answer, the filtered fallback for a
\* 429, another status or any exception inside the try block.
search_with_filters_result(keyword, filters, outcome) ==
    IF outcome.kind = "ok"
    THEN to_products(outcome.shopping_results)
    ELSE get_filtered_fallback_products(keyword, filters)

\* What _search_products_with_serpapi does once the port has answered
\* (lines 262-294): raised for another status or an exception, [] for a 429.
search_products_result(outcome) ==
    IF outcome.kind = "ok"
    THEN [raised |-> FALSE, products |-> to_products(outcome.shopping_results)]
    ELSE IF outcome.kind = "rate_limited"
    THEN [raised |-> FALSE, products |-> <<>>]
    ELSE [raised |-> TRUE, products |-> <<>>]

---------------------------------------------------------------------------
(* The Ranker: _rank_products *)

\* Scores are kept in tenths (0.9 is 9).  A relevance_score is an optional
\* number: None is the null a scoring answer may carry.  A candidate without
\* the field has no "relevance_score" key.
SortKey(product) == Get(product, "relevance_score", Some(0))

\* A sort that puts x before the elements of equal key
RECURSIVE InsertDesc_unstable(_, _)
InsertDesc_unstable(x, s) ==
    IF Len(s) = 0 THEN <<x>>
    ELSE IF The(SortKey(Head(s))) > The(SortKey(x))
    THEN <<Head(s)>> \o InsertDesc_unstable(x, Tail(s))
    ELSE <<x>> \o s

\* x goes behind every element whose key is at least its own
RECURSIVE InsertDesc(_, _)
InsertDesc(x, s) ==
    IF Len(s) = 0 THEN <<x>>
    ELSE IF The(SortKey(Head(s))) >= The(SortKey(x))
    THEN <<Head(s)>> \o InsertDesc(x, Tail(s))
    ELSE <<x>> \o s

\* sorted(products, key=lambda x: x.get("relevance_score", 0), reverse=True):
\* Python's sort is stable, with reverse=True too
RECURSIVE sorted_desc(_)
sorted_desc(products) ==
    IF Len(products) = 0 THEN <<>>
    ELSE InsertDesc(products[Len(products)],
                    sorted_desc(SubSeq(products, 1, Len(products) - 1)))

\* sorted raises TypeError when it compares a None key: with two or more
\* elements every key is compared at least once.
sort_raises(products) ==
    /\ Len(products) >= 2
    /\ \E i \in 1..Len(products) : SortKey(products[i]) = None

\* The dict built for one product (lines 385-399); `id` is the uuid4 drawn
\* for it, the n-th value drawn by the process being the number n.
formatted_product(product, id) ==
    [id              |-> id,
     title           |-> Get(product, "title", "Unknown Product"),
     description     |-> Get(product, "description", ""),
     price           |-> Get(product, "price", "Price not available"),
     currency        |-> INR,
     image_url       |-> Get(product, "image_url", "/static/placeholder-product.svg"),
     rating          |-> Get(product, "rating", None),
     reviews_count   |-> Get(product, "reviews_count", None),
     availability    |-> "In Stock",
     source          |-> Get(product, "source", "Unknown"),
     url             |-> Get(product, "url", "#"),
     relevance_score |-> Get(product, "relevance_score", Some(5)),
     explanation     |-> Get(product, "explanation",
                             "Recommended based on your search criteria")]

\* Every call gives its products the identifiers 1, 2, ..., whatever was
\* drawn before
rank_products_same_ids(products, drawn) ==
    IF sort_raises(products) THEN [raised |-> TRUE, products |-> <<>>]
    ELSE LET sorted_products == sorted_desc(products)
         IN  [raised |-> FALSE,
              products |-> [i \in 1..Len(sorted_products) |->
                              formatted_product(sorted_products[i], i)]]

\* _rank_products, `drawn` uuid4 values having been drawn before the call
rank_products(products, drawn) ==
    IF sort_raises(products) THEN [raised |-> TRUE, products |-> <<>>]
    ELSE LET sorted_products == sorted_desc(products)
         IN  [raised |-> FALSE,
              products |-> [i \in 1..Len(sorted_products) |->
                              formatted_product(sorted_products[i], drawn + i)]]

---------------------------------------------------------------------------
(* The Relevance Scorer: _analyze_products_with_ai *)

\* product.update(d)
Update(product, d) ==
    [k \in (DOMAIN product) \cup (DOMAIN d) |-> IF k \in DOMAIN d THEN d[k] ELSE product[k]]

\* Lines 304-309 and 370-375: the linear decay by arrival position
\* (enumerate counts from 0), max(0.1, 1.0 - i * 0.1)
decay_score_unclamped(i) == 10 - i

\* The score goes up with the place, from 0.1 to 1.0
decay_score_rising(i) == IF i + 1 < 10 THEN i + 1 ELSE 10

decay_score(i) == IF 10 - i > 1 THEN 10 - i ELSE 1

decay_scored(products, explanation) ==
    [n \in 1..Len(products) |->
        Update(products[n], [relevance_score |-> Some(decay_score(n - 1)),
                             explanation |-> explanation])]

\* The update one answer of the scoring port makes to a product (lines
\* 338-361): the parsed analysis of a 200 answer that is a JSON object; the
\* neutral 0.5 for unparsable JSON, another status, or an exception.
analysis_update(product, answer) ==
    IF answer.kind = "ok" THEN Update(product, answer.analysis)
    ELSE IF answer.kind = "bad_json"
    THEN Update(product, [relevance_score |-> Some(5),
                          explanation |-> "Unable to analyze product relevance"])
    ELSE Update(product, [relevance_score |-> Some(5),
                          explanation |-> "Analysis unavailable"])

\* One failed answer makes the Scorer give up the batch and score every
\* product by its position
analyze_products_abort_on_failure(products, original_query, ai_key, setup_fails, answers) ==
    IF ~ai_key
    THEN decay_scored(products, "Product matches your search for: " \o original_query)
    ELSE IF setup_fails \/ \E n \in 1..Len(products) : answers[n].kind # "ok"
    THEN decay_scored(products, "Product matches your search criteria")
    ELSE [n \in 1..Len(products) |-> analysis_update(products[n], answers[n])]

\* _analyze_products_with_ai.  ai_key: a scoring key is configured;
\* setup_fails: the HTTP session cannot be set up (the outer except clause);
\* answers[n]: the port's answer for the n-th product.
analyze_products_with_ai(products, original_query, ai_key, setup_fails, answers) ==
    IF ~ai_key
    THEN decay_scored(products, "Product matches your search for: " \o original_query)
    ELSE IF setup_fails
    THEN decay_scored(products, "Product matches your search criteria")
    ELSE [n \in 1..Len(products) |-> analysis_update(products[n], answers[n])]

---------------------------------------------------------------------------
(* The Query Interpreter and the one-shot retrieval *)

\* _parse_query_with_phi3.  The result is [is_dict, value]: json.loads may
\* return a value that is no dict.
degraded_query(query) == [is_dict |-> TRUE, value |-> [product_type |-> query]]

\* The answer is returned whatever the port did
parse_query_with_phi3_undegraded(query, phi3_key, answer) ==
    IF ~phi3_key
    THEN [is_dict |-> TRUE,
          value |-> [product_type |-> query, price_range |-> None,
                     features |-> <<>>, brand_preference |-> None]]
    ELSE answer.parsed

\* What the port did in one invocation: without a key the function returns
\* at line 200 before any request; with a key there is the one
\* session.post of line 230, in no loop
phi3_port(phi3_key, answer) ==
    IF ~phi3_key THEN [outcome |-> "unconfigured", calls |-> 0]
    ELSE [outcome |-> answer.kind, calls |-> 1]

parse_query_with_phi3(query, phi3_key, answer) ==
    IF ~phi3_key
    THEN [is_dict |-> TRUE,
          value |-> [product_type |-> query, price_range |-> None,
                     features |-> <<>>, brand_preference |-> None]]
    ELSE IF answer.kind = "ok" THEN answer.parsed
    ELSE degraded_query(query)

\* _search_products_with_serpapi: raised without a key (line 249), when
\* parsed_query has no .get, for a status other than 200 and 429, and for any
\* exception of the call.
search_products_with_serpapi(parsed_query, serpapi_key, outcome) ==
    IF ~serpapi_key \/ ~parsed_query.is_dict
    THEN [raised |-> TRUE, products |-> <<>>]
    ELSE search_products_result(outcome)

---------------------------------------------------------------------------
(* The chat session machine: process_chat_message *)

FreshSession ==
    [stage                |-> "initial",
     product_keyword      |-> None,
     current_filters      |-> <<>>,
     available_filters    |-> <<>>,
     current_filter_index |-> 0]

\* "\n".join(f"- {opt}" for opt in options); "-" stands for the bullet
RECURSIVE bullet_lines(_)
bullet_lines(options) ==
    IF Len(options) = 0 THEN ""
    ELSE IF Len(options) = 1 THEN "- " \o options[1]
    ELSE bullet_lines(SubSeq(options, 1, Len(options) - 1))
            \o "\n" \o "- " \o options[Len(options)]

filter_prompt(intro, filter) ==
    [message        |-> intro \o "**" \o filter.name
                          \o "**: Please choose from these options:\n"
                          \o bullet_lines(filter.options),
     products       |-> <<>>,
     has_products   |-> FALSE,
     filter_options |-> filter.options,
     filter_name    |-> filter.name]

products_reply(text, results) ==
    [message |-> text, products |-> results, has_products |-> TRUE]

text_reply(text) ==
    [message |-> text, products |-> <<>>, has_products |-> FALSE]

ClarifyText ==
    "I'd like to help you find products! Please tell me what you're looking for (e.g., smartphone, speakers, earphones, laptop, etc.)"

ErrorText ==
    "I'm sorry, I encountered an error. Let's start fresh - what product are you looking for?"

\* _generate_conversational_response
generate_conversational_response(message) ==
    LET message_lower == Lower(message)
    IN  IF AnyIn(<<"hello", "hi", "hey", "good morning", "good afternoon",
                   "good evening">>, message_lower)
        THEN "Hello! I'm your AI Shopping Agent. I can help you find products based on your needs. Just tell me what you're looking for!"
        ELSE IF AnyIn(<<"thank you", "thanks", "appreciate">>, message_lower)
        THEN "You're welcome! Is there anything else I can help you find today?"
        ELSE IF AnyIn(<<"help", "how", "what can you do">>, message_lower)
        THEN "I can help you find products by understanding your natural language queries. For example, you can say 'I need a smartphone under $20000 with good camera' and I'll find the best options for you!"
        ELSE "I'm here to help you find products! Could you tell me what you're looking for? I can search for electronics, clothing, accessories, and much more."

\* The reply of the except clause of process_chat_message (lines 189-196)
error_reply == text_reply(ErrorText)

\* The result of one stretch of process_chat_message:
\*   slot    the dict that self.user_sessions[session_id] holds afterwards
\*   kind    "reply" (the handler returned), "await" (it is suspended at the
\*           HTTP call of a search) or "raise" (the except clause returned)
\*   reply   the returned dict, for "reply" and "raise"
\*   session the dict the handler's local `session` names, for "await"
Returned(slot, reply) ==
    [slot |-> slot, kind |-> "reply", reply |-> Some(reply), session |-> slot,
     awaiting |-> "none"]

\* The exception leaves process_chat_message: there is no reply
Raised_uncaught(slot) ==
    [slot |-> slot, kind |-> "raise", reply |-> None, session |-> slot,
     awaiting |-> "none"]

Raised(slot) ==
    [slot |-> slot, kind |-> "raise", reply |-> Some(error_reply), session |-> slot,
     awaiting |-> "none"]

Awaiting(slot, what) ==
    [slot |-> slot, kind |-> "await", reply |-> None, session |-> slot,
     awaiting |-> what]

\* The stage written before the search is one the handler does not know
start_filtered_search_unknown_stage(session, serpapi_key) ==
    LET searching == [session EXCEPT !.stage = "filtered_search"]
        keyword == The(session.product_keyword)
    IN  IF build_search_query(keyword, session.current_filters).raised
        THEN Raised(searching)
        ELSE IF ~serpapi_key
        THEN Returned(FreshSession,
                products_reply("Here are your filtered results for " \o keyword \o ":",
                    get_filtered_fallback_products(keyword, session.current_filters)))
        ELSE Awaiting(searching, "filters")

\* Lines 159-178 up to the port call: the last filter answer has been stored
\* in `session`.
start_filtered_search(session, serpapi_key) ==
    LET searching == [session EXCEPT !.stage = "searching"]
        keyword == The(session.product_keyword)
    IN  IF build_search_query(keyword, session.current_filters).raised
        THEN Raised(searching)
        ELSE IF ~serpapi_key
        THEN Returned(FreshSession,
                products_reply("Here are your filtered results for " \o keyword \o ":",
                    get_filtered_fallback_products(keyword, session.current_filters)))
        ELSE Awaiting(searching, "filters")

\* A message without a vocabulary keyword is kept as the product keyword
initial_stage_keeps_message(session, message, serpapi_key) ==
    LET keyword == extract_product_keyword(message)
    IN  IF keyword = None
        THEN Returned([session EXCEPT !.product_keyword = Some(message)],
                      text_reply(ClarifyText))
        ELSE LET filters == get_available_filters(The(keyword))
                 started == [session EXCEPT !.product_keyword = keyword,
                                            !.stage = "getting_filters",
                                            !.available_filters = filters]
             IN  IF Len(filters) > 0
                 THEN Returned(started,
                        filter_prompt("Great! I found filters for " \o The(keyword)
                            \o ". Let's refine your search step by step.\n\n", filters[1]))
                 ELSE IF ~serpapi_key THEN Raised(started)
                 ELSE Awaiting(started, "keyword")

\* The keyword and the filters are stored and the stage is left "initial"
initial_stage_no_transition(session, message, serpapi_key) ==
    LET keyword == extract_product_keyword(message)
    IN  IF keyword = None THEN Returned(session, text_reply(ClarifyText))
        ELSE LET filters == get_available_filters(The(keyword))
                 started == [session EXCEPT !.product_keyword = keyword,
                                            !.available_filters = filters]
             IN  IF Len(filters) > 0
                 THEN Returned(started,
                        filter_prompt("Great! I found filters for " \o The(keyword)
                            \o ". Let's refine your search step by step.\n\n", filters[1]))
                 ELSE IF ~serpapi_key THEN Raised(started)
                 ELSE Awaiting(started, "keyword")

\* Lines 99-135: a message in stage "initial"
initial_stage(session, message, serpapi_key) ==
    LET keyword == extract_product_keyword(message)
    IN  IF keyword = None THEN Returned(session, text_reply(ClarifyText))
        ELSE LET filters == get_available_filters(The(keyword))
                 started == [session EXCEPT !.product_keyword = keyword,
                                            !.stage = "getting_filters",
                                            !.available_filters = filters]
             IN  IF Len(filters) > 0
                 THEN Returned(started,
                        filter_prompt("Great! I found filters for " \o The(keyword)
                            \o ". Let's refine your search step by step.\n\n", filters[1]))
                 ELSE IF ~serpapi_key THEN Raised(started)
                 ELSE Awaiting(started, "keyword")

\* A message with a vocabulary keyword starts the dialogue over instead of
\* being stored as an answer
getting_filters_stage_rereads_keyword(session, message, serpapi_key) ==
    LET filter_index == session.current_filter_index
    IN  IF extract_product_keyword(message) # None
        THEN initial_stage(FreshSession, message, serpapi_key)
        ELSE IF filter_index < Len(session.available_filters)
        THEN LET current_filter == session.available_filters[filter_index + 1]
                 stored == [session EXCEPT
                              !.current_filters =
                                  OPut(@, current_filter.param, Strip(message)),
                              !.current_filter_index = @ + 1]
             IN  IF stored.current_filter_index < Len(stored.available_filters)
                 THEN Returned(stored, filter_prompt("",
                        stored.available_filters[stored.current_filter_index + 1]))
                 ELSE start_filtered_search(stored, serpapi_key)
        ELSE Returned(session, text_reply(generate_conversational_response(message)))

\* The answer is stored and the index is left where it was
getting_filters_stage_no_advance(session, message, serpapi_key) ==
    LET filter_index == session.current_filter_index
    IN  IF filter_index < Len(session.available_filters)
        THEN LET current_filter == session.available_filters[filter_index + 1]
                 stored == [session EXCEPT
                              !.current_filters =
                                  OPut(@, current_filter.param, Strip(message))]
             IN  IF stored.current_filter_index + 1 < Len(stored.available_filters)
                 THEN Returned(stored, filter_prompt("",
                        stored.available_filters[stored.current_filter_index + 2]))
                 ELSE start_filtered_search(stored, serpapi_key)
        ELSE Returned(session, text_reply(generate_conversational_response(message)))

\* The prompt names the filter just answered, not the next one
getting_filters_stage_same_prompt(session, message, serpapi_key) ==
    LET filter_index == session.current_filter_index
    IN  IF filter_index < Len(session.available_filters)
        THEN LET current_filter == session.available_filters[filter_index + 1]
                 stored == [session EXCEPT
                              !.current_filters =
                                  OPut(@, current_filter.param, Strip(message)),
                              !.current_filter_index = @ + 1]
             IN  IF stored.current_filter_index < Len(stored.available_filters)
                 THEN Returned(stored, filter_prompt("", current_filter))
                 ELSE start_filtered_search(stored, serpapi_key)
        ELSE Returned(session, text_reply(generate_conversational_response(message)))

\* The index goes up by two with each answer
getting_filters_stage_skips(session, message, serpapi_key) ==
    LET filter_index == session.current_filter_index
    IN  IF filter_index < Len(session.available_filters)
        THEN LET current_filter == session.available_filters[filter_index + 1]
                 stored == [session EXCEPT
                              !.current_filters =
                                  OPut(@, current_filter.param, Strip(message)),
                              !.current_filter_index = @ + 2]
             IN  IF stored.current_filter_index < Len(stored.available_filters)
                 THEN Returned(stored, filter_prompt("",
                        stored.available_filters[stored.current_filter_index + 1]))
                 ELSE start_filtered_search(stored, serpapi_key)
        ELSE Returned(session, text_reply(generate_conversational_response(message)))

\* Lines 138-178: a message in stage "getting_filters"
getting_filters_stage(session, message, serpapi_key) ==
    LET filter_index == session.current_filter_index
    IN  IF filter_index < Len(session.available_filters)
        THEN LET current_filter == session.available_filters[filter_index + 1]
                 stored == [session EXCEPT
                              !.current_filters =
                                  OPut(@, current_filter.param, Strip(message)),
                              !.current_filter_index = @ + 1]
             IN  IF stored.current_filter_index < Len(stored.available_filters)
                 THEN Returned(stored, filter_prompt("",
                        stored.available_filters[stored.current_filter_index + 1]))
                 ELSE start_filtered_search(stored, serpapi_key)
        ELSE Returned(session, text_reply(generate_conversational_response(message)))

\* process_chat_message from its entry to its first suspension or its return.
\* slot0 is the optional dict of the session id before the call.
chat_begin(slot0, message, serpapi_key) ==
    LET session == IF slot0 = None THEN FreshSession ELSE The(slot0)
    IN  IF session.stage = "initial"
        THEN initial_stage(session, message, serpapi_key)
        ELSE IF session.stage = "getting_filters"
        THEN getting_filters_stage(session, message, serpapi_key)
        ELSE Returned(session, text_reply(generate_conversational_response(message)))

\* process_chat_message from the port's answer to its return: lines 162-178
\* for a filtered search, lines 122-128 for a keyword search.
chat_resume(session, awaiting, outcome) ==
    LET keyword == The(session.product_keyword)
    IN  IF awaiting = "filters"
        THEN Returned(FreshSession,
                products_reply("Here are your filtered results for " \o keyword \o ":",
                    search_with_filters_result(keyword, session.current_filters, outcome)))
        ELSE IF search_products_result(outcome).raised
        THEN Raised(session)
        ELSE Returned(session,
                products_reply("Here are the search results for " \o keyword \o ":",
                    search_products_result(outcome).products))

---------------------------------------------------------------------------
(* The chat endpoint: turns of process_chat_message, interleaved at the     *)
(* HTTP call of a search, the one point where a turn yields the event loop  *)

\* chat_with_agent passes this session id for every request
SessionIds == {"user_session"}

\* The message texts the model sends: two with a vocabulary keyword (a
\* four-filter and a two-filter category), a brand with blanks around it, a
\* price option, a price answer without the currency sign, and a greeting.
Messages ==
    {"I need a smartphone", "USB cable", " Samsung ", "Under $40,000",
     "Under 40000", "Hello"}

\* How many listings a 200 answer of the product-search port holds at most
ChatMaxListings == 2

\* The i-th raw listing of a 200 answer of the product-search port
RawListing(i) ==
    [title |-> "Listing " \o ToString(i), price |-> "$79,999", rating |-> Some(45),
     source |-> "Croma", snippet |-> "AI phone", thumbnail |-> "https://img/s24.png",
     reviews |-> Some(120), link |-> "https://croma.com/s24"]

\* The first n listings of an answer, in the order the port gives them
RECURSIVE RawListings(_)
RawListings(n) ==
    IF n = 0 THEN <<>> ELSE Append(RawListings(n - 1), RawListing(n))

\* The answers of the product-search port to one call: a 200 answer with up
\* to max listings, a 429, another status, or an exception of the call
SerpOutcomes(max) ==
    {[shopping_results |-> RawListings(n), kind |-> "ok"] : n \in 0..max}
        \cup {[shopping_results |-> <<>>, kind |-> k] :
                k \in {"rate_limited", "status", "exception"}}

NoEvent ==
    [op |-> "none", phase |-> "none", sid |-> "", message |-> "", pre |-> None,
     kind |-> "none", reply |-> None, overlapped |-> "none", during |-> None]

SlotOf(sid) == IF sid \in DOMAIN user_sessions THEN Some(user_sessions[sid]) ELSE None

\* A request arrives and process_chat_message runs to its first suspension
\* or to its return.  A turn that returns while another turn of the session
\* is suspended is noted in that turn's frame.
ChatBegin(sid, message) ==
    \E r \in {chat_begin(SlotOf(sid), message, keys.serpapi)} :
    LET mine == {f \in pending : f.sid = sid}
        noted(f) == [f EXCEPT !.overlapped =
                        IF @ = "none" THEN "one" ELSE "many",
                      !.during = Some([message |-> message, reply |-> The(r.reply)])]
    IN  /\ user_sessions' = Put(user_sessions, sid, r.slot)
        /\ pending' =
              IF r.kind = "await"
              THEN pending \cup {[sid |-> sid, message |-> message, pre |-> SlotOf(sid),
                                  session |-> r.session, awaiting |-> r.awaiting,
                                  overlapped |-> "none", during |-> None]}
              ELSE (pending \ mine) \cup {noted(f) : f \in mine}
        /\ ev' = [op |-> "chat", phase |-> "begin", sid |-> sid, message |-> message,
                  pre |-> SlotOf(sid), kind |-> r.kind, reply |-> r.reply,
                  overlapped |-> "none", during |-> None]
        /\ UNCHANGED <<keys, call, ret, uuids>>

\* The returning turn empties the session map
ChatResume_clears_sessions(f, outcome) ==
    \E r \in {chat_resume(f.session, f.awaiting, outcome)} :
        /\ f \in pending
        /\ user_sessions' = <<>>
        /\ pending' = pending \ {f}
        /\ ev' = [op |-> "chat", phase |-> "resume", sid |-> f.sid,
                  message |-> f.message, pre |-> f.pre, kind |-> r.kind,
                  reply |-> r.reply, overlapped |-> f.overlapped, during |-> f.during]
        /\ UNCHANGED <<keys, call, ret, uuids>>

\* The port answers and a suspended turn runs to its return
ChatResume(f, outcome) ==
    \E r \in {chat_resume(f.session, f.awaiting, outcome)} :
        /\ f \in pending
        /\ user_sessions' = Put(user_sessions, f.sid, r.slot)
        /\ pending' = pending \ {f}
        /\ ev' = [op |-> "chat", phase |-> "resume", sid |-> f.sid,
                  message |-> f.message, pre |-> f.pre, kind |-> r.kind,
                  reply |-> r.reply, overlapped |-> f.overlapped, during |-> f.during]
        /\ UNCHANGED <<keys, call, ret, uuids>>

NoCall == [op |-> "none"]

\* The service after __init__: any of the API keys may be missing; the chat
\* path reads serpapi_key only.
Init ==
    /\ keys \in [serpapi : BOOLEAN, phi3 : {FALSE}, ai : {FALSE}]
    /\ user_sessions = <<>>
    /\ pending = {}
    /\ ev = NoEvent
    /\ call = NoCall
    /\ ret = NoCall
    /\ uuids = 0

Next ==
    \/ \E sid \in SessionIds, message \in Messages : ChatBegin(sid, message)
    \/ \E f \in pending, outcome \in SerpOutcomes(ChatMaxListings) : ChatResume(f, outcome)

Spec == Init /\ [][Next]_vars

---------------------------------------------------------------------------
(* The one-shot search: process_search_query, one step per port it awaits   *)

Queries == {"phone case", "gaming laptop", "shoes"}

\* How many listings a 200 answer holds at most in the one-shot search: one
\* more than the ten the result keeps
SearchMaxListings == 11

\* The answers of the language-model port
Phi3Answers ==
    {[kind |-> "ok", parsed |-> [is_dict |-> TRUE, value |-> [product_type |-> "phone"]]],
     [kind |-> "ok", parsed |-> [is_dict |-> TRUE, value |-> [brand_preference |-> "any"]]],
     [kind |-> "ok", parsed |-> [is_dict |-> FALSE, value |-> <<>>]],
     [kind |-> "bad_json", parsed |-> [is_dict |-> FALSE, value |-> <<>>]],
     [kind |-> "status", parsed |-> [is_dict |-> FALSE, value |-> <<>>]],
     [kind |-> "exception", parsed |-> [is_dict |-> FALSE, value |-> <<>>]]}

\* The answers of the scoring port for one product: a JSON object with a
\* score, with a null score or with no score; unparsable JSON; another
\* status; an exception of the call
ScoreAnswers ==
    {[kind |-> "ok", analysis |-> [relevance_score |-> Some(9), explanation |-> "strong match"]],
     [kind |-> "ok", analysis |-> [relevance_score |-> Some(2), explanation |-> "weak match"]],
     [kind |-> "ok", analysis |-> [relevance_score |-> None]],
     [kind |-> "ok", analysis |-> [explanation |-> "no score given"]]}
        \cup {[kind |-> k, analysis |-> <<>>] : k \in {"bad_json", "status", "exception"}}

\* The scoring port answers the products of one batch by a repeating pattern
\* of this many answers
ScorerPeriod == 2

ScorerPatterns == [1..ScorerPeriod -> ScoreAnswers]

PatternAnswers(pattern, n) == [i \in 1..n |-> pattern[((i - 1) % Len(pattern)) + 1]]

\* ranked_products[:10]
TopN == 10

\* No slice: the whole list is returned
Take_all(s, n) == s

Take(s, n) == SubSeq(s, 1, IF Len(s) < n THEN Len(s) ELSE n)

\* Lines 37-39: the query has been interpreted
SearchParse(answer) ==
    /\ call.op = "search" /\ call.pc = "parse"
    /\ call' = [call EXCEPT !.pc = "retrieve",
                            !.parsed = parse_query_with_phi3(call.query, keys.phi3, answer),
                            !.interp = phi3_port(keys.phi3, answer)]
    /\ UNCHANGED <<keys, user_sessions, pending, ev, ret, uuids>>

\* Lines 41-47 and 61-65: the candidates have been retrieved; the fallback
\* catalog replaces an empty result, and the except clause takes it after any
\* exception.  call.retrieved keeps what _search_products_with_serpapi did.
SearchRetrieve(outcome) ==
    /\ call.op = "search" /\ call.pc = "retrieve"
    /\ \E r \in {search_products_with_serpapi(call.parsed, keys.serpapi, outcome)} :
          call' = [call EXCEPT
                      !.pc = "analyze",
                      !.retrieved = r,
                      !.attempt = IF r.raised THEN 2 ELSE 1,
                      !.retrieval = IF ~keys.serpapi THEN "unconfigured"
                                    ELSE IF ~call.parsed.is_dict THEN "bad_query"
                                    ELSE outcome.kind,
                      !.products = IF r.raised \/ Len(r.products) = 0
                                   THEN get_fallback_products(call.query)
                                   ELSE r.products]
    /\ UNCHANGED <<keys, user_sessions, pending, ev, ret, uuids>>

\* Lines 49-59 and 66-79: the candidates have been scored and are ranked.  An
\* exception of the first attempt enters the except clause, which scores and
\* ranks the fallback catalog; an exception there returns no products
\* (ret.failed).  At a return of ranked products call.products holds the
\* scored candidates the Ranker was given and ret.ranked what it returned.
SearchAnalyze(setup_fails, pattern) ==
    /\ call.op = "search" /\ call.pc = "analyze"
    /\ \E analyzed \in {analyze_products_with_ai(call.products, call.query, keys.ai,
                            setup_fails, PatternAnswers(pattern, Len(call.products)))} :
       \E ranked \in {rank_products(analyzed, uuids)} :
          IF ranked.raised /\ call.attempt = 1
          THEN /\ call' = [call EXCEPT !.attempt = 2, !.rank_raised = TRUE,
                                       !.products = get_fallback_products(call.query)]
               /\ UNCHANGED <<ret, uuids>>
          ELSE IF ranked.raised
          THEN /\ call' = [call EXCEPT !.pc = "done", !.rank_raised = TRUE]
               /\ ret' = [op |-> "search", failed |-> TRUE, products |-> <<>>,
                          ranked |-> <<>>,
                          explanation |-> "Sorry, I encountered an error while searching: error",
                          search_id |-> uuids + 1]
               /\ uuids' = uuids + 1
          ELSE /\ call' = [call EXCEPT !.pc = "done", !.products = analyzed]
               /\ ret' = [op |-> "search", failed |-> FALSE,
                          products |-> Take(ranked.products, TopN),
                          ranked |-> ranked.products,
                          explanation |->
                              IF call.attempt = 1
                              THEN "Found " \o ToString(Len(ranked.products))
                                      \o " products matching your criteria: " \o call.query
                              ELSE "Showing sample results for: " \o call.query
                                      \o " (API temporarily unavailable)",
                          search_id |-> uuids + Len(ranked.products) + 1]
               /\ uuids' = uuids + Len(ranked.products) + 1
    /\ UNCHANGED <<keys, user_sessions, pending, ev>>

InitSearch ==
    /\ keys \in [serpapi : BOOLEAN, phi3 : BOOLEAN, ai : BOOLEAN]
    /\ user_sessions = <<>>
    /\ pending = {}
    /\ ev = NoEvent
    /\ call \in {[op |-> "search", query |-> q, pc |-> "parse",
                  parsed |-> degraded_query(q), products |-> <<>>, attempt |-> 1,
                  retrieval |-> "none", rank_raised |-> FALSE,
                  retrieved |-> [raised |-> FALSE, products |-> <<>>],
                  interp |-> [outcome |-> "none", calls |-> 0]] : q \in Queries}
    /\ ret = NoCall
    /\ uuids = 0

NextSearch ==
    \/ \E answer \in Phi3Answers : SearchParse(answer)
    \/ \E outcome \in SerpOutcomes(SearchMaxListings) : SearchRetrieve(outcome)
    \/ \E setup_fails \in BOOLEAN, pattern \in ScorerPatterns :
            SearchAnalyze(setup_fails, pattern)

SpecSearch == InitSearch /\ [][NextSearch]_vars

---------------------------------------------------------------------------
(* The Ranker as a function: _rank_products applied to a candidate list     *)

\* The longest list among the exhaustively scored short inputs
MaxRankLen == 4

\* The length of the long inputs: one more than the ten a result keeps
LongRankLen == 11

\* How many times the Ranker is applied to the same list
MaxRankCalls == 2

\* The n-th candidate of an input: scored with `score`, or, for None, a
\* candidate without a relevance_score
Candidate(n, score) ==
    LET base == [title |-> "item " \o ToString(n), price |-> "$1,000",
                 description |-> "a candidate"]
    IN  IF score = None THEN base
        ELSE Update(base, [relevance_score |-> score])

CandidateList(scores) == [n \in 1..Len(scores) |-> Candidate(n, scores[n])]

RankInputs ==
    {CandidateList(scores) :
        scores \in UNION {[1..n -> {None, Some(1), Some(2), Some(9)}] : n \in 0..MaxRankLen}}
    \cup {CandidateList(scores) : scores \in [1..LongRankLen -> {Some(1), Some(9)}]}

RankCall ==
    /\ call.op = "rank"
    /\ Len(ret.returns) < MaxRankCalls
    /\ \E ranked \in {rank_products(call.products, uuids)} :
          /\ ret' = [ret EXCEPT !.returns = Append(@, ranked.products)]
          /\ uuids' = uuids + Len(ranked.products)
    /\ UNCHANGED <<keys, user_sessions, pending, ev, call>>

InitRank ==
    /\ keys = [serpapi |-> FALSE, phi3 |-> FALSE, ai |-> FALSE]
    /\ user_sessions = <<>>
    /\ pending = {}
    /\ ev = NoEvent
    /\ call \in {[op |-> "rank", products |-> input] : input \in RankInputs}
    /\ ret = [op |-> "rank", returns |-> <<>>]
    /\ uuids = 0

NextRank == RankCall

SpecRank == InitRank /\ [][NextRank]_vars

---------------------------------------------------------------------------
(* Properties of the chat session machine, checked under Spec *)

\* The turn ev reports has returned its reply (it is not suspended)
TurnDone == ev.op = "chat" /\ ev.kind # "await"

\* The session the finished turn found, a fresh one when there was none
PreSession == IF ev.pre = None THEN FreshSession ELSE The(ev.pre)

\* The turn answered the last filter of its session's sequence
LastAnswer ==
    /\ PreSession.stage = "getting_filters"
    /\ PreSession.current_filter_index + 1 = Len(PreSession.available_filters)

\* C1: for every session, after every step of every turn (the turns that end
\* in the error reply included), 0 <= current_filter_index <=
\* len(available_filters) and current_filters has current_filter_index entries.
C1_IndexCountsAnswers ==
    \A sid \in DOMAIN user_sessions :
        LET session == user_sessions[sid]
        IN  /\ 0 <= session.current_filter_index
            /\ session.current_filter_index <= Len(session.available_filters)
            /\ Len(session.current_filters) = session.current_filter_index

\* C1 witness: a turn ended in the error reply and left a session with all
\* four smartphone filters answered.
C1_Witness ==
    /\ TurnDone /\ ev.kind = "raise"
    /\ user_sessions[ev.sid].current_filter_index = 4
    /\ Len(user_sessions[ev.sid].current_filters) = 4

\* C2, as claimed: the turn that answers the last filter, whatever the answer
\* texts, returns a has-products reply and leaves the session reset to a fresh
\* INITIAL session.
C2_LastAnswerSearchesAndResets ==
    (TurnDone /\ LastAnswer) =>
        /\ The(ev.reply).has_products
        /\ user_sessions[ev.sid] = FreshSession

\* C3, as claimed: a turn in which an exception was raised leaves a fresh
\* INITIAL session and returns the start-over message.
C3_ErrorResetsSession ==
    (TurnDone /\ ev.kind = "raise") =>
        /\ user_sessions[ev.sid] = FreshSession
        /\ The(ev.reply) = text_reply(ErrorText)

\* The prompt for the filter at 0-based position i of a filter sequence
IsPromptFor(reply, filters, i) ==
    /\ i < Len(filters)
    /\ "filter_name" \in DOMAIN reply
    /\ reply.filter_name = filters[i + 1].name
    /\ reply.filter_options = filters[i + 1].options
    /\ ~reply.has_products
    /\ reply.products = <<>>

\* C4: a message with a known keyword in a fresh session is answered by the
\* prompt for filter 0 of the keyword's category; the i-th answer, i < N, is
\* answered by the prompt for filter i; and a has-products reply is returned
\* to the N-th answer only, and to every N-th answer whose turn raises no
\* exception.
C4_PromptsThenSearch ==
    TurnDone =>
        /\ (PreSession.stage = "initial" /\ extract_product_keyword(ev.message) # None)
              => IsPromptFor(The(ev.reply),
                    get_available_filters(The(extract_product_keyword(ev.message))), 0)
        /\ (PreSession.stage = "getting_filters" /\ ~LastAnswer)
              => IsPromptFor(The(ev.reply), PreSession.available_filters,
                    PreSession.current_filter_index + 1)
        /\ The(ev.reply).has_products => LastAnswer
        /\ (LastAnswer /\ ev.kind = "reply") => The(ev.reply).has_products

\* C4 witness: the fourth smartphone answer has been given and answered with
\* the search reply.
C4_Witness ==
    /\ TurnDone /\ LastAnswer
    /\ Len(PreSession.available_filters) = 4
    /\ The(ev.reply).has_products

\* C5, as claimed: no search reply carries an empty product list.
C5_SearchReplyNeverEmpty ==
    (TurnDone /\ The(ev.reply).has_products) => Len(The(ev.reply).products) > 0

\* C7, as claimed: every product of the chat search reply carries a relevance
\* score and an identifier, and the list is ordered by score, descending.
C7_ChatProductsScoredAndRanked ==
    (TurnDone /\ The(ev.reply).has_products) =>
        LET products == The(ev.reply).products
        IN  /\ \A i \in 1..Len(products) :
                  {"relevance_score", "id"} \subseteq DOMAIN products[i]
            /\ \A i \in 1..(Len(products) - 1) :
                  The(products[i].relevance_score) >= The(products[i + 1].relevance_score)

\* process_chat_message run without interruption on the optional dict slot0,
\* the port answering `outcome` if it is called
serial_turn(slot0, message, serpapi_key, outcome) ==
    LET begun == chat_begin(slot0, message, serpapi_key)
    IN  IF begun.kind = "await"
        THEN chat_resume(begun.session, begun.awaiting, outcome)
        ELSE begun

\* The replies r1 to m1 and r2 to m2 and the final dict are those of handling
\* m1 and then m2, one after the other, from slot0
SerialRun(slot0, m1, r1, m2, r2, final) ==
    \E o1, o2 \in SerpOutcomes(ChatMaxListings) :
        LET first == serial_turn(slot0, m1, keys.serpapi, o1)
            second == serial_turn(Some(first.slot), m2, keys.serpapi, o2)
        IN  first.reply = r1 /\ second.reply = r2 /\ second.slot = final

\* C8, as claimed: when one turn ran while another turn of its session was
\* suspended, the two replies and the session are those of the two messages
\* handled one after the other, in one of the two orders.
C8_OverlappingTurnsSerializable ==
    (TurnDone /\ ev.phase = "resume" /\ ev.overlapped = "one") =>
        LET other == The(ev.during)
        IN  \/ SerialRun(ev.pre, ev.message, ev.reply, other.message,
                         Some(other.reply), user_sessions[ev.sid])
            \/ SerialRun(ev.pre, other.message, Some(other.reply), ev.message,
                         ev.reply, user_sessions[ev.sid])

---------------------------------------------------------------------------
(* Properties of the one-shot search, checked under SpecSearch *)

SearchDone == call.op = "search" /\ call.pc = "done" /\ ret.op = "search"

FallbackTitles(query) ==
    {get_fallback_products(query)[i].title : i \in 1..Len(get_fallback_products(query))}

\* C6, as claimed: when the product-search port is unconfigured or its call
\* fails (a 429, another status, an exception), the one-shot result is a
\* non-empty list of fallback-catalog products, each scored and ranked.
C6_FallbackResultNeverEmpty ==
    (SearchDone /\ call.retrieval \in {"unconfigured", "rate_limited", "status", "exception"})
        => /\ Len(ret.products) > 0
           /\ \A i \in 1..Len(ret.products) :
                 /\ ret.products[i].title \in FallbackTitles(call.query)
                 /\ {"relevance_score", "id"} \subseteq DOMAIN ret.products[i]

\* C10, as claimed: the Ranker's output never holds more than 10 products.
C10_RankerOutputAtMostTen ==
    SearchDone => Len(ret.ranked) <= TopN

\* C10, amended: the Ranker returns one product per candidate it is given;
\* the one-shot search keeps the first 10 products of the Ranker's output, so
\* its result never holds more than 10 products, and when every candidate
\* carries a numeric score no product left out has a higher score than a
\* product kept.
C10_SearchKeepsFirstTenRanked ==
    (SearchDone /\ ~ret.failed) =>
        /\ Len(ret.ranked) = Len(call.products)
        /\ Len(ret.products) <= TopN
        /\ Len(ret.products) = (IF Len(ret.ranked) < TopN THEN Len(ret.ranked) ELSE TopN)
        /\ \A i \in 1..Len(ret.products) : ret.products[i] = ret.ranked[i]
        /\ (\A n \in 1..Len(call.products) :
                /\ "relevance_score" \in DOMAIN call.products[n]
                /\ call.products[n].relevance_score # None)
              => \A i \in 1..Len(ret.products), j \in (Len(ret.products) + 1)..Len(ret.ranked) :
                    The(ret.ranked[i].relevance_score) >= The(ret.ranked[j].relevance_score)

\* C10 witness: eleven candidates were ranked and ten of them returned.
C10_Witness ==
    SearchDone /\ Len(ret.ranked) = 11 /\ Len(ret.products) = 10

---------------------------------------------------------------------------
(* Properties of the Ranker, checked under SpecRank *)

AllScored == \A n \in 1..Len(call.products) : "relevance_score" \in DOMAIN call.products[n]

\* The place in the input of the candidate an output product was made from
InputPlace(product) ==
    CHOOSE n \in 1..Len(call.products) : call.products[n].title = product.title

\* C9: for an input of scored candidates the Ranker returns one product per
\* candidate, with the candidate's score, ordered by score descending, and two
\* products of equal score stand in the order their candidates had in the
\* input.
C9_RankIsStableDescending ==
    (call.op = "rank" /\ AllScored) =>
        \A k \in 1..Len(ret.returns) :
            LET out == ret.returns[k]
            IN  /\ Len(out) = Len(call.products)
                /\ {out[i].title : i \in 1..Len(out)}
                      = {call.products[n].title : n \in 1..Len(call.products)}
                /\ \A i \in 1..Len(out) :
                      out[i].relevance_score = call.products[InputPlace(out[i])].relevance_score
                /\ \A i, j \in 1..Len(out) :
                      i < j =>
                        /\ The(out[i].relevance_score) >= The(out[j].relevance_score)
                        /\ (out[i].relevance_score = out[j].relevance_score
                              => InputPlace(out[i]) < InputPlace(out[j]))

\* C9 witness: the scores [0.2, 0.9, 0.9, 0.1] have been ranked, and the two
\* 0.9 items come first in their input order, then 0.2, then 0.1.
C9_Witness ==
    /\ call.op = "rank"
    /\ call.products = CandidateList(<<Some(2), Some(9), Some(9), Some(1)>>)
    /\ Len(ret.returns) > 0
    /\ [i \in 1..4 |-> ret.returns[1][i].title] = <<"item 2", "item 3", "item 1", "item 4">>

\* The identifiers of the products of one output of the Ranker
Ids(out) == {out[i].id : i \in 1..Len(out)}

\* An output of the Ranker with its identifiers blanked
WithoutIds(out) == [i \in 1..Len(out) |-> [out[i] EXCEPT !.id = 0]]

---------------------------------------------------------------------------
(* The Relevance Scorer as a function: _analyze_products_with_ai applied to *)
(* a candidate list                                                         *)

\* The longest list among the short inputs
MaxScoreLen == 3

\* The length of the long input: past position 9, where the decay stops
LongScoreLen == 11

\* The candidate lists the Scorer is given: the fallback catalogs of the
\* queries, and lists made of the port's listings
ScoreInputs ==
    {get_fallback_products(q) : q \in Queries}
      \cup {to_products([i \in 1..n |-> RawListing(i)]) :
                n \in (0..MaxScoreLen) \cup {LongScoreLen}}

\* Which path of _analyze_products_with_ai a call takes: no scoring key
\* (lines 301-309), the outer except clause (lines 367-375), or one port call
\* per product (lines 311-365)
Scoring(setup_fails) ==
    IF ~keys.ai THEN "unconfigured"
    ELSE IF setup_fails THEN "setup_failed"
    ELSE "answered"

\* _analyze_products_with_ai is applied; ret keeps the port's answers and the
\* list returned
ScoreCall(setup_fails, pattern) ==
    /\ call.op = "score" /\ ret.op = "none"
    /\ LET answers == PatternAnswers(pattern, Len(call.products))
       IN  ret' = [op |-> "score", scoring |-> Scoring(setup_fails),
                   answers |-> answers,
                   scored |-> analyze_products_with_ai(call.products, call.query,
                                    keys.ai, setup_fails, answers)]
    /\ UNCHANGED <<keys, user_sessions, pending, ev, call, uuids>>

InitScore ==
    /\ keys \in [serpapi : {FALSE}, phi3 : {FALSE}, ai : BOOLEAN]
    /\ user_sessions = <<>>
    /\ pending = {}
    /\ ev = NoEvent
    /\ call \in {[op |-> "score", query |-> "phone case", products |-> input] :
                    input \in ScoreInputs}
    /\ ret = NoCall
    /\ uuids = 0

NextScore ==
    \E setup_fails \in BOOLEAN, pattern \in ScorerPatterns : ScoreCall(setup_fails, pattern)

SpecScore == InitScore /\ [][NextScore]_vars

---------------------------------------------------------------------------
(* Properties of the Relevance Scorer, checked under SpecScore *)

\* C12: when no scoring key is configured, or the scoring session fails before
\* any candidate is processed, the candidate at 0-based arrival position i is
\* given the score max(0.1, 1.0 - 0.1 * i) (in tenths: 10 - i down to 1 from
\* position 9 on), so three candidates are given 1.0, 0.9, 0.8.
C12_LinearDecayScores ==
    (ret.op = "score" /\ ret.scoring \in {"unconfigured", "setup_failed"}) =>
        /\ Len(ret.scored) = Len(call.products)
        /\ \A n \in 1..Len(ret.scored) :
              /\ ret.scored[n].title = call.products[n].title
              /\ ret.scored[n].relevance_score =
                    Some(IF n - 1 >= 9 THEN 1 ELSE 10 - (n - 1))
        /\ Len(ret.scored) = 3 =>
              [n \in 1..3 |-> ret.scored[n].relevance_score]
                  = <<Some(10), Some(9), Some(8)>>

\* C12 witness: the scoring session failed at its setup with eleven
\* candidates, and the candidates at positions 9 and 10 were given 0.1.
C12_Witness ==
    /\ ret.op = "score" /\ ret.scoring = "setup_failed"
    /\ Len(ret.scored) = 11
    /\ ret.scored[10].relevance_score = Some(1)
    /\ ret.scored[11].relevance_score = Some(1)

\* The optional relevance_score field of a dict: None also when the dict has
\* no such field
ScoreField(d) ==
    IF "relevance_score" \in DOMAIN d THEN Some(d.relevance_score) ELSE None

\* C13: with a scoring key configured and the scoring session set up, the
\* Scorer returns one product per candidate in the candidates' order; a
\* candidate whose port call failed (another status, an exception) or was
\* answered with unparsable text has the score 0.5, and every other candidate
\* has the score its own answer carried (its former score if the answer
\* carried none).
C13_ScoringFailuresIsolated ==
    (ret.op = "score" /\ ret.scoring = "answered") =>
        /\ Len(ret.scored) = Len(call.products)
        /\ \A n \in 1..Len(ret.scored) :
              /\ ret.scored[n].title = call.products[n].title
              /\ ret.answers[n].kind # "ok"
                    => ret.scored[n].relevance_score = Some(5)
              /\ ret.answers[n].kind = "ok"
                    => ScoreField(ret.scored[n]) =
                          (IF ScoreField(ret.answers[n].analysis) # None
                           THEN ScoreField(ret.answers[n].analysis)
                           ELSE ScoreField(call.products[n]))

\* C13 witness: of two candidates the first one's port call raised an
\* exception and the second was answered with the score 0.9; the first has
\* 0.5 and the second 0.9.
C13_Witness ==
    /\ ret.op = "score" /\ ret.scoring = "answered"
    /\ Len(ret.scored) = 2
    /\ ret.answers[1].kind = "exception"
    /\ ret.answers[2].kind = "ok"
    /\ ScoreField(ret.scored[1]) = Some(Some(5))
    /\ ScoreField(ret.scored[2]) = Some(Some(9))

---------------------------------------------------------------------------
(* The filtered retrieval as functions: _get_filtered_fallback_products and *)
(* _search_with_filters applied to a keyword and a map of filter answers    *)

\* _search_with_filters from its entry to its return, the port answering
\* `outcome` if it is called.  raised: an exception leaves the function.
search_with_filters(keyword, filters, serpapi_key, outcome) ==
    IF build_search_query(keyword, filters).raised
    THEN [raised |-> TRUE, products |-> <<>>]
    ELSE IF ~serpapi_key
    THEN [raised |-> FALSE, products |-> get_filtered_fallback_products(keyword, filters)]
    ELSE [raised |-> FALSE, products |-> search_with_filters_result(keyword, filters, outcome)]

\* Keywords of the three branches of the fallback catalog
FilterKeywords == {"smartphone", "laptop", "cable"}

\* Brand answers: brands in and not in the catalog titles, in another case,
\* and an option that names no brand
BrandAnswers == {"Samsung", "samsung", "Dell", "Popular Brands"}

\* Price answers: listed options, limits below, between and above the
\* catalog's prices, and an "Under" answer without the currency sign
PriceAnswers ==
    {"Under $40,000", "Under $35,000", "Under $10,000", "Under 40000",
     "$30,000 - $50,000", "Above $50,000", "Above $60,000", "Above $35,000"}

\* The maps of filter answers, in either order of answering
FilterMaps ==
    {<<>>}
      \cup {<<<<"brand", b>>>> : b \in BrandAnswers}
      \cup {<<<<"price", p>>>> : p \in PriceAnswers}
      \cup {<<<<"brand", b>>, <<"price", p>>>> : b \in BrandAnswers, p \in PriceAnswers}
      \cup {<<<<"price", p>>, <<"brand", b>>>> : b \in BrandAnswers, p \in PriceAnswers}

\* _get_filtered_fallback_products is applied
FilteredFallbackCall ==
    /\ call.op = "filtered" /\ ret.op = "none"
    /\ ret' = [op |-> "fallback", raised |-> FALSE,
               products |-> get_filtered_fallback_products(call.keyword, call.filters)]
    /\ UNCHANGED <<keys, user_sessions, pending, ev, call, uuids>>

\* _search_with_filters is applied
FilteredSearchCall(outcome) ==
    /\ call.op = "filtered" /\ ret.op = "none"
    /\ \E r \in {search_with_filters(call.keyword, call.filters, keys.serpapi, outcome)} :
          ret' = [op |-> "search_with_filters", raised |-> r.raised,
                  products |-> r.products, outcome |-> outcome.kind]
    /\ UNCHANGED <<keys, user_sessions, pending, ev, call, uuids>>

InitFiltered ==
    /\ keys \in [serpapi : BOOLEAN, phi3 : {FALSE}, ai : {FALSE}]
    /\ user_sessions = <<>>
    /\ pending = {}
    /\ ev = NoEvent
    /\ call \in {[op |-> "filtered", keyword |-> k, filters |-> f] :
                    k \in FilterKeywords, f \in FilterMaps}
    /\ ret = NoCall
    /\ uuids = 0

NextFiltered ==
    \/ FilteredFallbackCall
    \/ \E outcome \in SerpOutcomes(ChatMaxListings) : FilteredSearchCall(outcome)

SpecFiltered == InitFiltered /\ [][NextFiltered]_vars

---------------------------------------------------------------------------
(* Properties of the filtered retrieval, checked under SpecFiltered *)

\* No entry of the keyword's fallback catalog passes the brand and price
\* tests of the call's filter answers
AllRejected ==
    \A i \in 1..Len(get_fallback_products(call.keyword)) :
        \/ BrandRejects(get_fallback_products(call.keyword)[i], call.filters)
        \/ PriceRejects(get_fallback_products(call.keyword)[i], call.filters)

\* C14: the filtered fallback never returns an empty list, and when the
\* brand and price answers leave no catalog entry it returns the keyword's
\* whole catalog, unchanged.
C14_FilteredFallbackNeverEmpty ==
    ret.op = "fallback" =>
        /\ Len(ret.products) > 0
        /\ AllRejected => ret.products = get_fallback_products(call.keyword)

\* C14 witness: the brand "Samsung" against the laptop catalog, which has no
\* such title, gave back the whole laptop catalog.
C14_Witness ==
    /\ ret.op = "fallback"
    /\ call.keyword = "laptop"
    /\ call.filters = <<<<"brand", "Samsung">>>>
    /\ AllRejected
    /\ ret.products = get_fallback_products("laptop")

---------------------------------------------------------------------------
(* The service's two top-level operations side by side: a run is either a   *)
(* sequence of chat turns or one one-shot search                            *)

InitService == Init \/ InitSearch

NextService ==
    \/ call.op = "none" /\ Next
    \/ call.op = "search" /\ NextSearch

SpecService == InitService /\ [][NextService]_vars

\* C15: every chat turn that has ended returned a reply with a message text,
\* and every one-shot search that has ended returned a result with products,
\* an explanation and a search id, whatever the ports did.
C15_NoErrorPropagates ==
    /\ TurnDone =>
          /\ ev.reply # None
          /\ "message" \in DOMAIN The(ev.reply)
          /\ Len(The(ev.reply).message) > 0
    /\ SearchDone =>
          /\ {"products", "explanation", "search_id"} \subseteq DOMAIN ret
          /\ Len(ret.explanation) > 0
          /\ ret.search_id > 0

\* C15 witness: the product-search port raised an exception, the Ranker
\* raised on the scored fallback catalog, and the search returned its result.
C15_Witness ==
    /\ SearchDone
    /\ call.retrieval = "exception"
    /\ call.rank_raised
    /\ ret.failed

---------------------------------------------------------------------------
(* Further properties of the chat session machine, checked under Spec *)

\* C16: in every reachable state the stage of every session is one of
\* "initial", "getting_filters" and "searching".
C16_StageIsOneOfThree ==
    \A sid \in DOMAIN user_sessions :
        user_sessions[sid].stage \in {"initial", "getting_filters", "searching"}

\* C16 witness: a turn ended in the error reply and left its session in the
\* stage "searching".
C16_Witness ==
    /\ TurnDone /\ ev.kind = "raise"
    /\ user_sessions[ev.sid].stage = "searching"

\* The names of the filters of a filter sequence
FilterNames(filters) == [i \in 1..Len(filters) |-> filters[i].name]

\* C17: after a message with a vocabulary keyword in the stage "initial" the
\* session is in the stage "getting_filters" with the keyword, the filter
\* sequence of the keyword's category, index 0 and no answers, and the reply
\* carries the name and the options of the first filter; for "I need a
\* smartphone" the sequence is Brand, Price Range, Storage, RAM, the reply
\* names "Brand" and its options include "Samsung".
C17_KeywordStartsFilterCollection ==
    (TurnDone /\ PreSession.stage = "initial"
        /\ extract_product_keyword(ev.message) # None) =>
        LET keyword == The(extract_product_keyword(ev.message))
            session == user_sessions[ev.sid]
            reply == The(ev.reply)
        IN  /\ session.stage = "getting_filters"
            /\ session.product_keyword = Some(keyword)
            /\ session.available_filters = get_available_filters(keyword)
            /\ Len(session.available_filters) >= 1
            /\ session.current_filter_index = 0
            /\ session.current_filters = <<>>
            /\ reply.filter_name = session.available_filters[1].name
            /\ reply.filter_options = session.available_filters[1].options
            /\ ~reply.has_products
            /\ ev.message = "I need a smartphone" =>
                  /\ keyword = "smartphone"
                  /\ FilterNames(session.available_filters)
                        = <<"Brand", "Price Range", "Storage", "RAM">>
                  /\ reply.filter_name = "Brand"
                  /\ \E i \in 1..Len(reply.filter_options) :
                        reply.filter_options[i] = "Samsung"

\* C17 witness: "I need a smartphone" was sent to a session that an earlier
\* search had reset, and the session is collecting the smartphone filters.
C17_Witness ==
    /\ TurnDone /\ ev.message = "I need a smartphone"
    /\ ev.pre = Some(FreshSession)
    /\ user_sessions[ev.sid].stage = "getting_filters"
    /\ The(ev.reply).filter_name = "Brand"

---------------------------------------------------------------------------
(* Further properties of the filtered retrieval, checked under SpecFiltered *)

\* C18, as claimed: when an exception occurs in _search_with_filters, in the
\* port call or while the filter answers are folded into the query text, the
\* function raises nothing and returns the filtered fallback catalog.
C18_FilteredSearchExceptionsFallBack ==
    (ret.op = "search_with_filters"
        /\ \/ build_search_query(call.keyword, call.filters).raised
           \/ keys.serpapi /\ ret.outcome = "exception") =>
        /\ ~ret.raised
        /\ ret.products = get_filtered_fallback_products(call.keyword, call.filters)

\* A chat turn has started in the stage "getting_filters" and has run to its
\* return or to the port call of its search
AnswerTaken ==
    /\ ev.op = "chat" /\ ev.phase = "begin"
    /\ PreSession.stage = "getting_filters"

\* C20: a message that arrives in the stage "getting_filters", whatever its
\* text, is stored (with the blanks around it stripped, as message.strip()
\* does) as the answer under the parameter key of the filter at the current
\* index, behind the answers given before, and the index goes up by exactly
\* one; the keyword and the filter sequence stay as they were.  This is what
\* the session shows after every answer but the last, and after the last
\* answer as long as the session has not been reset behind the search.
C20_AnswerRecordedWhateverItsText ==
    AnswerTaken =>
        LET pre == PreSession
            session == user_sessions[ev.sid]
            filter == pre.available_filters[pre.current_filter_index + 1]
        IN  /\ ~LastAnswer => session.stage = "getting_filters"
            /\ session # FreshSession =>
                  /\ session.current_filters =
                        pre.current_filters \o <<<<filter.param, Strip(ev.message)>>>>
                  /\ session.current_filter_index = pre.current_filter_index + 1
                  /\ session.product_keyword = pre.product_keyword
                  /\ session.available_filters = pre.available_filters

\* C20 witness: while the smartphone filters were collected, the message
\* "USB cable", which holds a vocabulary keyword, was stored as the brand
\* answer, and the greeting "Hello" as the price answer after it.
C20_Witness ==
    /\ AnswerTaken
    /\ ev.message = "Hello"
    /\ user_sessions[ev.sid].product_keyword = Some("smartphone")
    /\ user_sessions[ev.sid].current_filters
          = <<<<"brand", "USB cable">>, <<"price", "Hello">>>>
    /\ user_sessions[ev.sid].current_filter_index = 2

\* C21: a message without a vocabulary keyword that arrives in the stage
\* "initial" leaves the session as it was (stage "initial", no keyword, no
\* filters, no answers, index 0) and is answered by the clarifying prompt,
\* with has_products false and no products.
C21_NoKeywordKeepsInitial ==
    (TurnDone /\ PreSession.stage = "initial"
        /\ extract_product_keyword(ev.message) = None) =>
        /\ user_sessions[ev.sid] = PreSession
        /\ user_sessions[ev.sid] =
              [stage |-> "initial", product_keyword |-> None,
               current_filters |-> <<>>, available_filters |-> <<>>,
               current_filter_index |-> 0]
        /\ The(ev.reply).message = ClarifyText
        /\ ~The(ev.reply).has_products
        /\ The(ev.reply).products = <<>>
        /\ "filter_name" \notin DOMAIN The(ev.reply)

\* C21 witness: "Hello" was sent to a session that an earlier search had
\* reset, and was answered by the clarifying prompt.
C21_Witness ==
    /\ TurnDone /\ ev.message = "Hello"
    /\ ev.pre = Some(FreshSession)
    /\ The(ev.reply).message = ClarifyText
    /\ user_sessions[ev.sid] = FreshSession

---------------------------------------------------------------------------
(* Further properties of the one-shot search, checked under SpecSearch *)

\* C22, as claimed: when the product-search port answers with a 429, with
\* another status that is not 200, or its call raises an exception,
\* _search_products_with_serpapi raises nothing and returns an empty list.
C22_RetrieveFailuresGiveEmpty ==
    (call.op = "search" /\ call.pc \in {"analyze", "done"}
        /\ call.retrieval \in {"rate_limited", "status", "exception"}) =>
        /\ ~call.retrieved.raised
        /\ call.retrieved.products = <<>>

---------------------------------------------------------------------------
(* The price and brand filters of the filtered fallback, checked under      *)
(* SpecFiltered                                                             *)

\* The price options the filter catalog offers, over all its categories
PriceOptionsOf(filters) ==
    UNION {{filters[i].options[j] : j \in 1..Len(filters[i].options)} :
              i \in {k \in 1..Len(filters) : filters[k].param = "price"}}

OfferedPriceOptions ==
    UNION {PriceOptionsOf(filters) :
              filters \in {SmartphoneFilters, LaptopFilters, SpeakerFilters,
                           EarphoneFilters, DefaultFilters}}

\* The number a price text stands for, currency sign and commas dropped
PriceNumber(text) == The(ParseInt(Remove(Remove(text, INR), ",")))

\* The product's price lies outside what the price option asks for: at or
\* over the bound of "Under $N", under the bound of "Above $N", outside the
\* band of "$A - $B"
PriceOutside(product, option) ==
    IF SubSeq(option, 1, 5) = "Under"
    THEN PriceNumber(product.price) >= PriceNumber(Split(option, INR)[2])
    ELSE IF SubSeq(option, 1, 5) = "Above"
    THEN PriceNumber(product.price) < PriceNumber(Split(option, INR)[2])
    ELSE ~(PriceNumber(Split(option, " - ")[1]) <= PriceNumber(product.price)
           /\ PriceNumber(product.price) <= PriceNumber(Split(option, " - ")[2]))

\* The list returned is the filtered one, not the whole catalog given back
\* because nothing remained: only filtered products carry an explanation
SomeRemained ==
    \A i \in 1..Len(ret.products) : "explanation" \in DOMAIN ret.products[i]

\* C23, as claimed: when the price answer is an option the filter catalog
\* offers ("Under", a band, or "Above") and the filtering left at least one
\* candidate, no returned candidate has a price outside the option's bound
\* or band.
C23_PriceFilterRemovesOutside ==
    (ret.op = "fallback" /\ OHas(call.filters, "price")
        /\ OGet(call.filters, "price") \in OfferedPriceOptions
        /\ SomeRemained) =>
        \A i \in 1..Len(ret.products) :
            ~PriceOutside(ret.products[i], OGet(call.filters, "price"))


\* The title holds the brand text, letter case ignored
TitleHasBrand(product, brand) == Contains(Lower(product.title), Lower(brand))

\* The call answered a brand that is no "any brand" value
NamedBrand ==
    /\ ret.op = "fallback"
    /\ OHas(call.filters, "brand")
    /\ OGet(call.filters, "brand") \notin AnyBrand

\* The filters without the entry of one key
WithoutKey(filters, key) == SelectSeq(filters, LAMBDA entry : entry[1] # key)

ReturnedTitles == {ret.products[i].title : i \in 1..Len(ret.products)}

\* An "any brand" answer removes nothing: the same titles come back as
\* without the brand entry
SentinelBrandRemovesNothing ==
    (ret.op = "fallback" /\ OHas(call.filters, "brand")
        /\ OGet(call.filters, "brand") \in AnyBrand) =>
        LET others == get_filtered_fallback_products(call.keyword,
                          WithoutKey(call.filters, "brand"))
        IN  ReturnedTitles = {others[i].title : i \in 1..Len(others)}

\* C24, as claimed: when the answered brand is no "any brand" value and at
\* least one catalog candidate's title holds the brand, every returned
\* candidate's title holds the brand; an "any brand" value removes nothing.
C24_BrandMatchInCatalogSuffices ==
    /\ (NamedBrand
          /\ \E i \in 1..Len(get_fallback_products(call.keyword)) :
                TitleHasBrand(get_fallback_products(call.keyword)[i],
                              OGet(call.filters, "brand"))) =>
          \A i \in 1..Len(ret.products) :
              TitleHasBrand(ret.products[i], OGet(call.filters, "brand"))
    /\ SentinelBrandRemovesNothing

\* C24, amended: when the answered brand is no "any brand" value and at
\* least one catalog candidate passes every answered filter, the price
\* filter included, every returned candidate's title holds the brand; an
\* "any brand" value removes nothing.
C24_BrandFilterKeepsMatches ==
    /\ (NamedBrand /\ SomeRemained) =>
          \A i \in 1..Len(ret.products) :
              TitleHasBrand(ret.products[i], OGet(call.filters, "brand"))
    /\ SentinelBrandRemovesNothing

\* A named brand kept one phone and removed the other
C24_Witness ==
    /\ NamedBrand /\ SomeRemained
    /\ Len(ret.products) = 1
    /\ Len(get_fallback_products(call.keyword)) = 2
    /\ TitleHasBrand(ret.products[1], OGet(call.filters, "brand"))

---------------------------------------------------------------------------
(* The query interpreter, checked under SpecSearch                          *)

\* C25: _parse_query_with_phi3 always returns; when the port is
\* unconfigured, answers with a status other than 200, raises, or answers
\* with text that is no JSON, the value returned is a dict whose product_type
\* is the raw query; and the port is called at most once.
C25_InterpreterDegradesToRawText ==
    (call.op = "search" /\ call.pc # "parse") =>
        /\ call.interp.calls <= 1
        /\ call.interp.outcome \in {"unconfigured", "status", "exception", "bad_json"} =>
              /\ call.parsed.is_dict
              /\ "product_type" \in DOMAIN call.parsed.value
              /\ call.parsed.value.product_type = call.query

\* The port was called once, answered with text that is no JSON, and the
\* query came back as the product type
C25_Witness ==
    /\ call.op = "search" /\ call.pc = "retrieve"
    /\ call.interp = [outcome |-> "bad_json", calls |-> 1]
    /\ call.parsed.value.product_type = "gaming laptop"

---------------------------------------------------------------------------
(* Chat turns of two sessions.  process_chat_message takes the session id   *)
(* as a parameter: the HTTP layer passes "user_session", the parameter's    *)
(* default is "default".                                                    *)

PairSessionIds == {"user_session", "default"}

\* A message that names a product and serves as a filter answer, and a price
\* answer without the currency sign, which makes the filtered search raise
PairMessages == {"I need a smartphone", "Under 40000"}

NextPair ==
    \/ \E sid \in PairSessionIds, message \in PairMessages : ChatBegin(sid, message)
    \/ \E f \in pending, outcome \in SerpOutcomes(ChatMaxListings) : ChatResume(f, outcome)

SpecPair == Init /\ [][NextPair]_vars

\* C26: a step of a chat turn of one session leaves the state of every other
\* session as it was, also when the turn resets its own session or fails.
C26_OtherSessionsUntouched ==
    [][\A sid \in PairSessionIds :
          ev'.sid # sid => SlotOf(sid)' = SlotOf(sid)]_vars

\* A turn of one session has failed, while the other session is in the
\* middle of its filter questions
C26_Witness ==
    /\ ev.op = "chat" /\ ev.sid = "user_session" /\ ev.kind = "raise"
    /\ "default" \in DOMAIN user_sessions
    /\ user_sessions["default"].stage = "getting_filters"
    /\ user_sessions["default"].current_filter_index = 2

---------------------------------------------------------------------------
(* The filter catalog over the whole vocabulary.  The keyword is drawn from *)
(* the extractor's vocabulary, its filters are looked up as the INITIAL     *)
(* stage does, and answers are stored as the filter stage does.             *)

Vocabulary == {product_keywords[i] : i \in 1..Len(product_keywords)}

FilterAnswerTexts == {"Samsung", "Under $10,000"}

\* Lines 105-128: the filters of the keyword are looked up; without filters
\* the stage goes on to the keyword search
FiltersLookup ==
    /\ call.op = "filters" /\ call.pc = "lookup"
    /\ \E filters \in {get_available_filters(call.keyword)} :
          ret' = [op |-> "filters", filters |-> filters, answered |-> <<>>,
                  index |-> 0, zero_branch |-> ~(Len(filters) > 0)]
    /\ call' = [call EXCEPT !.pc = "answer"]
    /\ UNCHANGED <<keys, user_sessions, pending, ev, uuids>>

\* Lines 138-162: one answer is stored under the current filter's param
FiltersAnswer(message) ==
    /\ call.op = "filters" /\ call.pc = "answer"
    /\ ret.index < Len(ret.filters)
    /\ \E r \in {getting_filters_stage(
                    [FreshSession EXCEPT !.stage = "getting_filters",
                                         !.product_keyword = Some(call.keyword),
                                         !.available_filters = ret.filters,
                                         !.current_filters = ret.answered,
                                         !.current_filter_index = ret.index],
                    message, TRUE)} :
          ret' = [ret EXCEPT !.answered = r.session.current_filters,
                             !.index = r.session.current_filter_index]
    /\ UNCHANGED <<keys, user_sessions, pending, ev, call, uuids>>

InitFilters ==
    /\ keys = [serpapi |-> TRUE, phi3 |-> FALSE, ai |-> FALSE]
    /\ user_sessions = <<>>
    /\ pending = {}
    /\ ev = NoEvent
    /\ call \in {[op |-> "filters", keyword |-> k, pc |-> "lookup"] : k \in Vocabulary}
    /\ ret = NoCall
    /\ uuids = 0

NextFilters ==
    \/ FiltersLookup
    \/ \E message \in FilterAnswerTexts : FiltersAnswer(message)

SpecFilters == InitFilters /\ [][NextFilters]_vars

\* C27: every keyword of the vocabulary has at least one filter, the param
\* keys of its filters are pairwise distinct, every answer stored adds one
\* entry to the answered filters, and the branch for a keyword without
\* filters is not taken.
C27_EveryKeywordHasDistinctFilters ==
    ret.op = "filters" =>
        /\ Len(ret.filters) > 0
        /\ \A i, j \in 1..Len(ret.filters) :
              ret.filters[i].param = ret.filters[j].param => i = j
        /\ Len(ret.answered) = ret.index
        /\ ~ret.zero_branch

\* A keyword of the default category has had all its filters answered
C27_Witness ==
    /\ ret.op = "filters" /\ call.keyword = "screen protector"
    /\ ret.index = Len(ret.filters)
    /\ Len(ret.answered) = Len(ret.filters)
    /\ ret.index >= 2

---------------------------------------------------------------------------
(* The scores written by the ranker, checked under SpecRank                 *)

\* C28, as claimed: in every list _rank_products returns, the
\* relevance_score values written into the products do not increase from
\* first to last, candidates without a relevance_score field included.
C28_WrittenScoresNonIncreasing ==
    call.op = "rank" =>
        \A k \in 1..Len(ret.returns) :
            \A i, j \in 1..Len(ret.returns[k]) :
                i < j => The(ret.returns[k][i].relevance_score)
                            >= The(ret.returns[k][j].relevance_score)

---------------------------------------------------------------------------
(* Filter answers under overlapping turns of one session, checked under     *)
(* Spec                                                                     *)

\* The sessions of the map and the sessions that suspended turns hold
LiveSessions ==
    {user_sessions[sid] : sid \in DOMAIN user_sessions}
        \cup {f.session : f \in pending}

\* The param keys of the answers, in the order they were stored
AnswerKeys(session) ==
    [i \in 1..Len(session.current_filters) |-> session.current_filters[i][1]]

\* C29: however the turns of a session interleave at the search call, the
\* answers stored are those of the filters below the index, one answer per
\* filter and in the filters' order, so no filter is skipped and none is
\* answered twice; and a turn that runs while another turn of the session
\* is suspended in its search leaves the stored answers as they are.
C29_NoAnswerLostOrDoubled ==
    /\ \A session \in LiveSessions :
          AnswerKeys(session) =
              [i \in 1..session.current_filter_index |->
                  session.available_filters[i].param]
    /\ \A f \in pending :
          /\ user_sessions[f.sid].current_filters = f.session.current_filters
          /\ user_sessions[f.sid].current_filter_index = f.session.current_filter_index
    /\ (ev.op = "chat" /\ ev.phase = "begin"
          /\ \E f \in pending : f.sid = ev.sid /\ f.overlapped # "none") =>
          user_sessions[ev.sid] = PreSession

\* A message that reads like a brand answer arrived while the turn of the
\* fourth answer was suspended in its search, and the four answers stand
C29_Witness ==
    /\ ev.op = "chat" /\ ev.phase = "begin" /\ ev.message = " Samsung "
    /\ \E f \in pending :
          /\ f.sid = ev.sid /\ f.overlapped # "none"
          /\ f.session.current_filter_index = 4
          /\ Len(user_sessions[f.sid].current_filters) = 4

---------------------------------------------------------------------------
(* The order of a one-shot search result without a scoring key, checked     *)
(* under SpecSearch                                                         *)

\* The candidates in the order they arrived: the listings retrieved, or the
\* fallback catalog when retrieval raised or returned nothing
Arrived ==
    IF ~call.retrieved.raised /\ Len(call.retrieved.products) > 0
    THEN call.retrieved.products
    ELSE get_fallback_products(call.query)

TitlesOf(products) == [i \in 1..Len(products) |-> products[i].title]

\* C30: without a scoring key, the ranked list has the candidates in their
\* arrival order, and the products returned are the first ten of them in
\* that order, also for more than ten candidates, whose scores from the
\* tenth on are all 0.1.
C30_UnscoredResultKeepsArrivalOrder ==
    (SearchDone /\ ~ret.failed /\ ~keys.ai) =>
        /\ TitlesOf(ret.ranked) = TitlesOf(Arrived)
        /\ TitlesOf(ret.products) = TitlesOf(Take(Arrived, TopN))

\* Eleven listings arrived; the tenth and the eleventh are tied at 0.1 and
\* the tenth is the last product of the result
C30_Witness ==
    /\ SearchDone /\ ~ret.failed /\ ~keys.ai
    /\ Len(ret.ranked) = 11
    /\ ret.ranked[10].relevance_score = Some(1)
    /\ ret.ranked[11].relevance_score = Some(1)
    /\ ret.products[10].title = call.retrieved.products[10].title
    /\ ret.ranked[11].title = call.retrieved.products[11].title

=============================================================================
